---- MODULE Spec2Model ----
(***************************************************************************)
(* Model of the UpdLoader pipeline: an uploaded archive is validated,      *)
(* saved to a temporary file, extracted and parsed (UPD or CommerceML      *)
(* customer invoice), and the parsed document is uploaded to MoySklad as   *)
(* two linked documents (demand -> factureout, customerorder ->            *)
(* invoiceout).                                                            *)
(*                                                                         *)
(* Spec      the processing of one archive: the whole pipeline of a        *)
(*           processor with every answer the external service can give.    *)
(* SpecConc  two archives processed in two executor threads, restricted    *)
(*           to the steps that touch the temporary directory.              *)
(***************************************************************************)
EXTENDS Integers, Sequences, FiniteSets, TLC

\* ------------------------------------------------------------------ bounds
\* longest item list of a parsed document
MaxItems == 2
\* most rows of a tabular section and most products of a catalog
MaxRows == 2
MaxProducts == 3

\* longest raw value of an attribute, in characters
MaxChars == 4

\* most files of an archive handed to the detector
MaxFiles == 3

\* --------------------------------------------------------- program constants
MAX_FILE_SIZE == 10485760

\* Python's None, for optional strings
NoValue == "none"
\* the tax id both parsers put in place of one they could not derive
PlaceholderInn == "0000000000"

UPD_EXTRACT == "upd_extract"
CUSTOMER_INVOICE_EXTRACT == "customer_invoice_extract"
Processors == {"upd", "customer_invoice"}

\* ------------------------------------------------------------- the inputs
\* str.lower() on the characters that occur in FileNames
LowerChar(c) ==
  CASE c = "Z" -> "z"
    [] c = "I" -> "i"
    [] c = "P" -> "p"
    [] c = "X" -> "x"
    [] c = "M" -> "m"
    [] c = "L" -> "l"
    [] c = "A" -> "a"
    [] OTHER -> c

Lower(s) == [i \in 1..Len(s) |-> LowerChar(s[i])]

EndsWith(s, suffix) ==
  /\ Len(s) >= Len(suffix)
  /\ SubSeq(s, Len(s) - Len(suffix) + 1, Len(s)) = suffix

ZipSuffix == <<".", "z", "i", "p">>

\* the upload with which every content of an archive is tried
UsualSize == MAX_FILE_SIZE
UsualName == <<"a", ".", "z", "i", "p">>

RECURSIVE SeqsUpTo(_, _)
SeqsUpTo(S, n) ==
  IF n = 0 THEN {<<>>}
  ELSE LET shorter == SeqsUpTo(S, n - 1)
       IN shorter \cup {Append(s, x) : s \in {t \in shorter : Len(t) = n - 1}, x \in S}

BuyerInns == {NoValue, "7800000002", "781490187318"}

EmptyArchive(structure) ==
  [structure |-> structure, seller_inn |-> NoValue, buyer_inn |-> NoValue,
   items |-> <<>>, requisite |-> NoValue, size |-> UsualSize,
   filename |-> UsualName]

FullArchives(requisites, usual) ==
  [structure : {"full"}, seller_inn : {("7700000001")}, buyer_inn : {("7800000002")},
   items : SeqsUpTo({[name |-> "bolt", article |-> NoValue],
                     [name |-> "tube", article |-> "A1"]}, MaxItems),
   requisite : {usual}, size : {UsualSize}, filename : {UsualName}]
    \cup [structure : {"full"}, seller_inn : {NoValue, "7700000001"},
          buyer_inn : BuyerInns,
          items : {<<[name |-> "tube", article |-> "A1"]>>},
          requisite : requisites, size : {UsualSize}, filename : {UsualName}]

Archives(processor) ==
  IF processor = "upd"
  THEN {EmptyArchive(s) : s \in
          {"bad_zip", "no_manifest", "manifest_incomplete", "no_descriptor",
           "descriptor_malformed", "no_body", "body_undecodable", "header_only",
           "body_malformed"}}
         \cup FullArchives({NoValue, "239"}, "239")
  ELSE {EmptyArchive(s) : s \in
          {"bad_zip", "no_invoice_xml", "xml_malformed", "no_document",
           "no_number_or_date", "no_seller", "no_buyer"}}
         \cup FullArchives({NoValue}, NoValue)

NoArchive == EmptyArchive("none")

\* the archive a as uploaded with the given size and file name
Upload(a, size, filename) == [a EXCEPT !.size = size, !.filename = filename]

\* the contents tried for an upload: all of them for the usual upload, a
\* file that is no ZIP archive for the others
UploadedArchives(processor, size, filename) ==
  IF size = UsualSize /\ filename = UsualName
  THEN Archives(processor) ELSE {EmptyArchive("bad_zip")}

\* ------------------------------------------------------------ the parsers
NoDocument ==
  [kind |-> "none", sentinel |-> FALSE, seller_inn |-> NoValue,
   buyer_inn |-> NoValue, items |-> <<>>, requisite |-> NoValue]

Document(seller_inn, buyer_inn, items, requisite) ==
  [kind |-> "doc", sentinel |-> FALSE, seller_inn |-> seller_inn,
   buyer_inn |-> buyer_inn, items |-> items, requisite |-> requisite]

\* UPDParser._create_basic_upd_content: the empty-sentinel document
BasicUpdContent ==
  [kind |-> "doc", sentinel |-> TRUE, seller_inn |-> PlaceholderInn,
   buyer_inn |-> PlaceholderInn, items |-> <<>>, requisite |-> NoValue]

Raised(type) == [raised |-> TRUE, type |-> type, doc |-> NoDocument]
Returned(doc) == [raised |-> FALSE, type |-> NoValue, doc |-> doc]

\* UPDParser._parse_seller_info / _parse_buyer_info: no tax id raises
ParsePartyInfo(inn) ==
  IF inn = NoValue THEN [raised |-> TRUE, inn |-> NoValue]
  ELSE [raised |-> FALSE, inn |-> inn]

\* UPDParser._parse_full_upd_content: every exception raised while the body
\* is read is caught and replaced by the empty-sentinel document
ParseFullUpdContent(a) ==
  LET seller == ParsePartyInfo(a.seller_inn)
      buyer == ParsePartyInfo(a.buyer_inn)
  IN IF seller.raised \/ buyer.raised
     THEN BasicUpdContent
     ELSE Document(seller.inn, buyer.inn, a.items, a.requisite)

\* UPDParser._parse_upd_content
ParseUpdContent(a) ==
  CASE a.structure \in {"no_body", "body_undecodable"} -> Raised("UPDParsingError")
    [] a.structure \in {"header_only", "body_malformed"} -> Returned(BasicUpdContent)
    [] OTHER -> Returned(ParseFullUpdContent(a))

\* UPDParser.parse_upd_archive: extract, manifest, descriptor, body; every
\* exception leaves as UPDParsingError
ParseUpdArchive(a) ==
  IF a.structure \in {"bad_zip", "no_manifest", "manifest_incomplete",
                      "no_descriptor", "descriptor_malformed"}
  THEN Raised("UPDParsingError")
  ELSE ParseUpdContent(a)

\* CustomerInvoiceParser._parse_contractors: a contractor whose Ид holds no
\* tax id is given the placeholder
ParseContractorInn(inn) == IF inn = NoValue THEN PlaceholderInn ELSE inn

\* CustomerInvoiceParser._parse_invoice_xml
ParseInvoiceXml(a) ==
  IF a.structure # "full"
  THEN Raised("CustomerInvoiceParsingError")
  ELSE Returned(Document(ParseContractorInn(a.seller_inn),
                         ParseContractorInn(a.buyer_inn), a.items, NoValue))

\* CustomerInvoiceParser.parse_customer_invoice_archive
ParseCustomerInvoiceArchive(a) ==
  IF a.structure \in {"bad_zip", "no_invoice_xml"}
  THEN Raised("CustomerInvoiceParsingError")
  ELSE ParseInvoiceXml(a)

ParseArchive(processor, a) ==
  IF processor = "upd" THEN ParseUpdArchive(a) ELSE ParseCustomerInvoiceArchive(a)

\* -------------------------------------------------- the temporary directory
\* a scratch directory: who wrote the meta.xml and card.xml it holds (0: no
\* such file) and whose principal documents lie in it
EmptyDir == [exists |-> FALSE, meta |-> 0, card |-> 0, mains |-> {}]

ExtractDirName(processor) ==
  IF processor = "upd" THEN UPD_EXTRACT ELSE CUSTOMER_INVOICE_EXTRACT

\* zipfile.extractall into the directory: same-named files are overwritten,
\* the others stay
ExtractAll(dir, r) ==
  [exists |-> TRUE, meta |-> r, card |-> r, mains |-> dir.mains \cup {r}]

\* _extract_archive: a file that is no ZIP archive leaves the directory alone
ExtractArchive(files, processor, a, r) ==
  IF a.structure = "bad_zip" THEN files
  ELSE [files EXCEPT !.dirs[ExtractDirName(processor)] = ExtractAll(@, r)]

CleanupTempFiles(files, processor, zip_path, outcome) ==
  LET d == ExtractDirName(processor)
  IN CASE outcome = "remove_fails" /\ zip_path \in files.zips -> files
       [] outcome = "rmtree_fails" /\ files.dirs[d].exists ->
            [files EXCEPT !.zips = @ \ {zip_path}]
       [] OTHER ->
            [files EXCEPT !.zips = @ \ {zip_path}, !.dirs[d] = EmptyDir]

\* ------------------------------------------------------------ the results
NoResult == [kind |-> "none", success |-> FALSE, error_code |-> NoValue, missing |-> {}]

Failure(code, missing) ==
  [kind |-> "result", success |-> FALSE, error_code |-> code, missing |-> missing]

Exc(type) == [type |-> type, missing |-> {}]

ParsingErrorOf(processor) ==
  IF processor = "upd" THEN "UPDParsingError" ELSE "CustomerInvoiceParsingError"

\* the typed except clauses alone, without `except Exception`: any other
\* exception leaves the method (kind "escaped")
HandleTypedOnly(processor, exc) ==
  CASE exc.type = ParsingErrorOf(processor) -> Failure("PARSING_ERROR", exc.missing)
    [] exc.type = "MoySkladAPIError" -> Failure("MOYSKLAD_API_ERROR", exc.missing)
    [] OTHER -> [kind |-> "escaped", success |-> FALSE, error_code |-> NoValue,
                 missing |-> exc.missing]

\* the except clauses of process_upd_file / process_customer_invoice_file
HandleException(processor, exc) ==
  CASE exc.type = ParsingErrorOf(processor) -> Failure("PARSING_ERROR", exc.missing)
    [] exc.type = "MoySkladAPIError" -> Failure("MOYSKLAD_API_ERROR", exc.missing)
    [] OTHER -> Failure("UNEXPECTED_ERROR", exc.missing)

\* the checks with the file name compared as it is
ValidateFileCaseSensitive(size, filename) ==
  IF size > MAX_FILE_SIZE THEN Failure("FILE_TOO_LARGE", {})
  ELSE IF ~EndsWith(filename, ZipSuffix) THEN Failure("INVALID_FILE_TYPE", {})
  ELSE NoResult

\* _validate_file and the two checks at the head of both process methods
ValidateFile(size, filename) ==
  IF size > MAX_FILE_SIZE THEN Failure("FILE_TOO_LARGE", {})
  ELSE IF ~EndsWith(Lower(filename), ZipSuffix) THEN Failure("INVALID_FILE_TYPE", {})
  ELSE NoResult

\* ------------------------------------------------- the external service
\* answers of a find-by-filter request: rows, no row, non-2xx, network error
LookupAnswers == {"rows", "empty", "http_err", "net_err"}
\* answers of a fetch-by-reference request and of verify
FetchAnswers == {"ok", "http_err", "net_err"}
\* answers of a create request; "ok_no_meta": 200 whose body has no meta
ErrorAnswers == {"http_err", "net_err"}

\* MoySkladAPI.verify_token: status 200, every exception is False
VerifyToken(ans) == ans = "ok"

\* MoySkladAPI._find_organization_by_inn: the first row, else None
FindOrganizationByInn(ans) == ans = "rows"

\* MoySkladAPI._find_product_by_article / _find_product: first row else None
FindProductByArticle(ans) == IF ans = "rows" THEN "product_by_article" ELSE NoValue
FindProduct(ans) == IF ans = "rows" THEN "product_by_name" ELSE NoValue

\* a lookup in which a match by name replaces the product found by article
ResolveProductNameFirst(item, ans) ==
  IF FindProduct(ans.name) # NoValue THEN FindProduct(ans.name)
  ELSE IF item.article # NoValue THEN FindProductByArticle(ans.article) ELSE NoValue

\* the product lookup at the head of the loops of _create_positions_from_upd
\* and _create_positions_from_customer_invoice
ResolveProduct(item, ans) ==
  LET by_article == IF item.article # NoValue
                    THEN FindProductByArticle(ans.article) ELSE NoValue
  IN IF by_article # NoValue THEN by_article ELSE FindProduct(ans.name)

\* the lookups that the head of the loop sends for an item, in their order
LookupsMade(item, ans) ==
  (IF item.article # NoValue THEN <<"article">> ELSE <<>>)
    \o (IF item.article = NoValue \/ FindProductByArticle(ans.article) = NoValue
        THEN <<"name">> ELSE <<>>)

\* did a lookup of ResolveProduct end in a non-2xx answer or network error
ResolveErrors(item, ans) ==
  \/ item.article # NoValue /\ ans.article \in ErrorAnswers
  \/ /\ (item.article = NoValue \/ FindProductByArticle(ans.article) = NoValue)
     /\ ans.name \in ErrorAnswers

\* MoySkladAPI._find_customer_invoice: three filters in turn; a filter that
\* finds rows fetches the first one; a network error ends the search
RECURSIVE FindCustomerInvoiceFrom(_, _)
FindCustomerInvoiceFrom(answers, i) ==
  IF i > Len(answers) THEN FALSE
  ELSE CASE answers[i] = "found" -> TRUE
         [] answers[i] \in {"fetch_net_err", "net_err"} -> FALSE
         [] OTHER -> FindCustomerInvoiceFrom(answers, i + 1)

FindCustomerInvoice(requisite, answers) ==
  IF requisite = NoValue THEN FALSE ELSE FindCustomerInvoiceFrom(answers, 1)

\* the requests of the search that were answered with an error
RECURSIVE SearchErrorsFrom(_, _)
SearchErrorsFrom(answers, i) ==
  IF i > Len(answers) THEN FALSE
  ELSE CASE answers[i] = "found" -> FALSE
         [] answers[i] \in {"fetch_net_err", "net_err"} -> TRUE
         [] answers[i] \in {"fetch_http_err", "http_err"} -> TRUE
         [] OTHER -> SearchErrorsFrom(answers, i + 1)

SearchErrors(requisite, answers) ==
  IF requisite = NoValue THEN FALSE ELSE SearchErrorsFrom(answers, 1)

\* _create_demand, lines 452-508: a store that is absent, no dict, or a dict
\* without meta and id raises
StoreOfInvoice(kind) == IF kind \in {"missing", "invalid"} THEN NoValue ELSE "invoice_store"

\* _determine_main_warehouse_for_order / _determine_main_project_for_order:
\* the classification of one item and the majority rule
NameClass(name) ==
  CASE name = "profile" -> "profile"
    [] name = "tube" -> "tube"
    [] OTHER -> "other"

ClassifyItem(item, group) == IF group = "none" THEN NameClass(item.name) ELSE group

Classes(items, groups) == [i \in 1..Len(items) |-> ClassifyItem(items[i], groups[i])]

Count(classes, c) == Cardinality({i \in DOMAIN classes : classes[i] = c})

\* a choice in which a tie goes to the tubes
TargetWarehouseTieTube(classes) ==
  IF Count(classes, "tube") >= Count(classes, "profile")
  THEN "Sestroretsk, PP" ELSE "Gatchina"

TargetWarehouse(classes) ==
  IF Count(classes, "tube") > Count(classes, "profile")
  THEN "Sestroretsk, PP" ELSE "Gatchina"

TargetProject(classes) ==
  IF Count(classes, "tube") > Count(classes, "profile")
  THEN "Truby" ELSE "profili"

\* MoySkladAPI._get_or_create_counterparty: reuse the first row of a 200
\* answer; a network error raises; in every other case create
GetOrCreateCounterparty(existing, lookup, create) ==
  IF lookup = "net_err"
  THEN [obtained |-> FALSE, create_sent |-> FALSE, created |-> FALSE]
  ELSE IF lookup = "ok" /\ existing
  THEN [obtained |-> TRUE, create_sent |-> FALSE, created |-> FALSE]
  ELSE [obtained |-> create = "ok", create_sent |-> TRUE, created |-> create = "ok"]

\* an order of the calls in which the counterparty comes before the
\* organization
NextStepCounterpartyFirst(step) ==
  CASE step = "verify" -> "counterparty"
    [] step = "counterparty" -> "organization"
    [] step = "organization" -> "first"
    [] step = "first" -> "second"
    [] OTHER -> "report"

\* the calls of _upload_to_moysklad, create_invoice_from_upd and
\* create_customer_order_and_invoice, in the order in which they are made
NextStep(step) ==
  CASE step = "verify" -> "organization"
    [] step = "organization" -> "counterparty"
    [] step = "counterparty" -> "first"
    [] step = "first" -> "second"
    [] OTHER -> "report"

\* ------------------------------------------------------------------ state
VARIABLES
  pc,             \* where the run stands
  processor,      \* the processor the document was dispatched to
  archive,        \* what the uploaded archive holds
  temp_zip_path,  \* 0: None, else the temporary file of the run
  files,          \* TEMP_DIR: the temporary ZIP files and the scratch directories
  document,       \* the document the parser returned
  result,         \* the ProcessingResult returned to the caller
  counterparties, \* external service: number of counterparties per tax id
  draft,          \* the create request being assembled
  first_doc,      \* the answer to the first create request
  requests,       \* the document create requests sent, in order
  trace,          \* the steps entered, the first error answer, the failures
  workers,        \* SpecConc: the two executor threads
  calc            \* SpecCalc: the last function applied, its input and output

vars == <<pc, processor, archive, temp_zip_path, files, document, result,
          counterparties, draft, first_doc, requests, trace, workers, calc>>

run_vars == <<pc, processor, archive, temp_zip_path, document, result,
              counterparties, draft, first_doc, requests, trace>>

\* the run of Spec is run 1 of the temporary directory
RunId == 1

CounterpartyInns == (BuyerInns \ {NoValue}) \cup {PlaceholderInn}

NoDraft ==
  [store |-> NoValue, project |-> NoValue, link |-> NoValue, invoice |-> FALSE,
   positions |-> <<>>, missing |-> {}, next |-> 1]

NoFiles == [zips |-> {}, dirs |-> [d \in {UPD_EXTRACT, CUSTOMER_INVOICE_EXTRACT} |-> EmptyDir]]

\* no function applied yet
NoCalc == [op |-> "none"]

Workers == {1, 2}
Init ==
  /\ pc = "idle"
  /\ processor = "upd"
  /\ archive = NoArchive
  /\ temp_zip_path = 0
  /\ files = NoFiles
  /\ document = NoDocument
  /\ result = NoResult
  /\ \E n \in {0, 1} : counterparties = [inn \in CounterpartyInns |-> n]
  /\ draft = NoDraft
  /\ first_doc = [kind |-> NoValue, meta |-> FALSE]
  /\ requests = <<>>
  /\ trace = <<>>
  /\ workers = [w \in Workers |->
                  [pc |-> "idle", processor |-> "upd", zip |-> 0, meta |-> 0,
                   main |-> 0, foreign |-> FALSE, removed |-> {}]]
  /\ calc = NoCalc

\* ---------------------------------------------------------------- history
Event(ev, name) == [ev |-> ev, name |-> name]

HasEvent(t, ev) == \E i \in 1..Len(t) : t[i].ev = ev

\* the first error answer of a run is recorded, with the step it came in
AddError(t, step, err) ==
  IF err /\ ~HasEvent(t, "error") THEN Append(t, Event("error", step)) ELSE t

AddIf(t, cond, e) == IF cond THEN Append(t, e) ELSE t

\* an exception leaves the try block: the except clause that catches it
\* builds the result, then the finally block runs
Raise(exc) ==
  /\ result' = HandleException(processor, exc)
  /\ pc' = "cleanup"

ApiError == Exc("MoySkladAPIError")

\* ------------------------------------------------- the processing of a file
\* TelegramUPDBot._process_document hands the bytes to one processor;
\* process_upd_file / process_customer_invoice_file first validate them
ReceiveDocument ==
  /\ pc = "idle"
  /\ \E p \in Processors,
        size \in {MAX_FILE_SIZE - 1, MAX_FILE_SIZE, MAX_FILE_SIZE + 1},
        filename \in { <<"a", ".", "z", "i", "p">>, <<"a", ".", "Z", "i", "P">>,
                       <<"a", ".", "x", "m", "l">>, <<"z", "i", "p">> } :
       LET v == ValidateFile(size, filename)
       IN /\ processor' = p
          /\ IF v.kind = "result"
             THEN /\ result' = v
                  /\ pc' = "done"
                  /\ archive' = Upload(NoArchive, size, filename)
             ELSE /\ result' = result
                  /\ pc' = "save"
                  /\ \E a \in UploadedArchives(p, size, filename) :
                       archive' = Upload(a, size, filename)
  /\ UNCHANGED <<temp_zip_path, files, document, counterparties, draft,
                 first_doc, requests, trace, workers, calc>>

\* Config.ensure_temp_dir and _save_temp_file: the file exists as soon as
\* NamedTemporaryFile returns; its name is assigned to temp_zip_path only
\* when write and flush went through
SaveTempFile ==
  /\ pc = "save"
  /\ \E outcome \in {"ok", "mkdir_fails", "write_fails"} :
       /\ files' = IF outcome = "mkdir_fails" THEN files
                   ELSE [files EXCEPT !.zips = @ \cup {RunId}]
       /\ IF outcome = "ok"
          THEN /\ temp_zip_path' = RunId
               /\ pc' = "parse"
               /\ result' = result
          ELSE /\ temp_zip_path' = temp_zip_path
               /\ Raise(Exc("OSError"))
  /\ UNCHANGED <<processor, archive, document, counterparties, draft,
                 first_doc, requests, trace, workers, calc>>

\* _parse_upd / _parse_customer_invoice: extraction and parsing
Parse ==
  /\ pc = "parse"
  /\ files' = ExtractArchive(files, processor, archive, RunId)
  /\ LET r == ParseArchive(processor, archive)
     IN IF r.raised
        THEN /\ Raise(Exc(r.type))
             /\ document' = document
        ELSE /\ document' = r.doc
             /\ pc' = "verify"
             /\ result' = result
  /\ UNCHANGED <<processor, archive, temp_zip_path, counterparties, draft,
                 first_doc, requests, trace, workers, calc>>

\* _upload_to_moysklad: the token check
Verify ==
  /\ pc = "verify"
  /\ \E ans \in FetchAnswers :
       LET t1 == AddError(Append(trace, Event("step", "verify")), "verify",
                          ans \in ErrorAnswers)
       IN IF VerifyToken(ans)
          THEN /\ pc' = NextStep("verify")
               /\ result' = result
               /\ trace' = AddIf(t1, ans # "ok", Event("fail", "verify"))
          ELSE /\ Raise(ApiError)
               /\ trace' = Append(t1, Event("fail", "verify"))
  /\ UNCHANGED <<processor, archive, temp_zip_path, files, document,
                 counterparties, draft, first_doc, requests, workers, calc>>

\* create_invoice_from_upd / create_customer_order_and_invoice: the seller
\* organization is looked up by tax id
FindOrganization ==
  /\ pc = "organization"
  /\ \E ans \in LookupAnswers :
       LET t1 == AddError(Append(trace, Event("step", "organization")),
                          "organization", ans \in ErrorAnswers)
       IN IF FindOrganizationByInn(ans)
          THEN /\ pc' = NextStep("organization")
               /\ result' = result
               /\ trace' = AddIf(t1, ans # "rows", Event("fail", "organization"))
          ELSE /\ Raise(ApiError)
               /\ trace' = Append(t1, Event("fail", "organization"))
  /\ UNCHANGED <<processor, archive, temp_zip_path, files, document,
                 counterparties, draft, first_doc, requests, workers, calc>>

\* _get_or_create_counterparty for the buyer of the document.  The answer
\* of the enrichment lookup (_lookup_counterparty_by_inn) changes neither
\* the control flow nor the fields modelled here
ResolveCounterparty ==
  /\ pc = "counterparty"
  /\ \E lookup \in FetchAnswers, create \in FetchAnswers :
       LET inn == document.buyer_inn
           r == GetOrCreateCounterparty(counterparties[inn] > 0, lookup, create)
           t1 == AddError(Append(trace, Event("step", "counterparty")),
                          "counterparty", lookup \in ErrorAnswers)
           t2 == AddError(AddIf(t1, r.create_sent, Event("create", "counterparty")),
                          "counterparty", r.create_sent /\ create \in ErrorAnswers)
       IN /\ counterparties' =
               IF r.created THEN [counterparties EXCEPT ![inn] = @ + 1]
               ELSE counterparties
          /\ IF r.obtained
             THEN /\ pc' = NextStep("counterparty")
                  /\ result' = result
                  /\ trace' = t2
             ELSE /\ Raise(ApiError)
                  /\ trace' = Append(t2, Event("fail", "counterparty"))
  /\ UNCHANGED <<processor, archive, temp_zip_path, files, document, draft,
                 first_doc, requests, workers, calc>>

\* ------------------------------------------------ the two create requests
Phase == IF pc \in {"first", "first_project", "first_positions", "first_post"}
         THEN "first" ELSE "second"

PcOf(phase, part) ==
  IF phase = "first"
  THEN (CASE part = "project" -> "first_project"
          [] part = "positions" -> "first_positions"
          [] OTHER -> "first_post")
  ELSE (CASE part = "project" -> "second_project"
          [] part = "positions" -> "second_positions"
          [] OTHER -> "second_post")

DocKind(p, phase) ==
  IF p = "upd"
  THEN (IF phase = "first" THEN "demand" ELSE "factureout")
  ELSE (IF phase = "first" THEN "customerorder" ELSE "invoiceout")

\* the answers to the three filters of _find_customer_invoice
InvoiceSearches ==
  [1..3 -> {"found", "fetch_http_err", "fetch_net_err", "empty", "http_err", "net_err"}]

\* _create_demand up to the positions: the customer invoice named by the
\* requisite number is searched and its store is taken over; no invoice or
\* no usable store raises.  The positions of the invoice are then fetched
\* for their prices (_create_positions_from_upd, lines 609-681)
StartDemand ==
  /\ pc = "first"
  /\ processor = "upd"
  /\ \E answers \in InvoiceSearches,
        store \in {"full", "meta_fetched", "meta_fetch_http_err",
                   "meta_fetch_net_err", "missing", "invalid"},
        fetch \in FetchAnswers :
       LET found == FindCustomerInvoice(document.requisite, answers)
           usable == found /\ StoreOfInvoice(store) # NoValue
           err == \/ SearchErrors(document.requisite, answers)
                  \/ found /\ store \in {"meta_fetch_http_err", "meta_fetch_net_err"}
                  \/ usable /\ fetch \in ErrorAnswers
           t1 == AddError(Append(trace, Event("step", "first")), "first", err)
       IN IF usable
          THEN /\ draft' = [NoDraft EXCEPT !.store = StoreOfInvoice(store),
                                           !.invoice = TRUE]
               /\ pc' = "first_positions"
               /\ result' = result
               /\ trace' = t1
          ELSE /\ draft' = draft
               /\ Raise(ApiError)
               /\ trace' = Append(t1, Event("fail", "first"))
  /\ UNCHANGED <<processor, archive, temp_zip_path, files, document,
                 counterparties, first_doc, requests, workers, calc>>

\* _map_upd_to_factureout up to the positions: the demand is referenced by
\* demand["meta"], the customer invoice is searched again for the prices
StartFactureout ==
  /\ pc = "second"
  /\ processor = "upd"
  /\ \E answers \in InvoiceSearches, fetch \in FetchAnswers :
       LET found == FindCustomerInvoice(document.requisite, answers)
           err == \/ SearchErrors(document.requisite, answers)
                  \/ found /\ fetch \in ErrorAnswers
           t0 == Append(trace, Event("step", "second"))
       IN IF first_doc.meta
          THEN /\ draft' = [NoDraft EXCEPT !.link = first_doc.kind,
                                           !.invoice = found]
               /\ pc' = "second_positions"
               /\ result' = result
               /\ trace' = AddError(t0, "second", err)
          ELSE /\ draft' = draft
               /\ Raise(ApiError)
               /\ trace' = Append(t0, Event("fail", "second"))
  /\ UNCHANGED <<processor, archive, temp_zip_path, files, document,
                 counterparties, first_doc, requests, workers, calc>>

\* what the product lookup and _get_product_group_name yield for each item:
\* a group of profiles, a group of tubes, or nothing of the two
GroupAnswersOf(items) == [1..Len(items) -> {"profile", "tube", "none"}]

\* _create_customer_order / _create_customer_invoice, first call:
\* _determine_main_warehouse_for_order.  No list of stores, or no store of
\* the target name in it, raises; errors of the product and group lookups
\* of the classification are swallowed (lookup_err)
DetermineWarehouse ==
  /\ pc \in {"first", "second"}
  /\ processor = "customer_invoice"
  /\ \E wh \in LookupAnswers, groups \in GroupAnswersOf(document.items),
        lookup_err \in BOOLEAN, present \in BOOLEAN :
       LET target == TargetWarehouse(Classes(document.items, groups))
           err == \/ wh \in ErrorAnswers
                  \/ wh = "rows" /\ lookup_err /\ Len(document.items) > 0
           t1 == AddError(Append(trace, Event("step", Phase)), Phase, err)
       IN IF wh = "rows" /\ present
          THEN /\ draft' = [NoDraft EXCEPT !.store = target]
               /\ pc' = PcOf(Phase, "project")
               /\ result' = result
               /\ trace' = t1
          ELSE /\ draft' = draft
               /\ Raise(ApiError)
               /\ trace' = Append(t1, Event("fail", Phase))
  /\ UNCHANGED <<processor, archive, temp_zip_path, files, document,
                 counterparties, first_doc, requests, workers, calc>>

\* second call: _determine_main_project_for_order returns None when the
\* projects cannot be listed or hold no project of the target name; then
\* the link to the order is set (_create_customer_invoice, lines 1364-1370)
DetermineProject ==
  /\ pc \in {"first_project", "second_project"}
  /\ \E pr \in LookupAnswers, groups \in GroupAnswersOf(document.items),
        lookup_err \in BOOLEAN, present \in BOOLEAN :
       LET target == TargetProject(Classes(document.items, groups))
           err == \/ pr \in ErrorAnswers
                  \/ pr = "rows" /\ lookup_err /\ Len(document.items) > 0
       IN /\ draft' = [draft EXCEPT
                         !.project = IF pr = "rows" /\ present THEN target ELSE NoValue,
                         !.link = IF Phase = "second" /\ first_doc.meta
                                  THEN first_doc.kind ELSE NoValue]
          /\ pc' = PcOf(Phase, "positions")
          /\ trace' = AddError(trace, Phase, err)
  /\ UNCHANGED <<processor, archive, temp_zip_path, files, document, result,
                 counterparties, first_doc, requests, workers, calc>>

ProductLookups == [article : LookupAnswers, name : LookupAnswers]

\* one iteration of the loop over the items in _create_positions_from_upd
\* and _create_positions_from_customer_invoice
ResolveItem ==
  /\ pc \in {"first_positions", "second_positions"}
  /\ draft.next <= Len(document.items)
  /\ \E ans \in ProductLookups :
       LET item == document.items[draft.next]
           product == ResolveProduct(item, ans)
           t1 == AddError(trace, Phase, ResolveErrors(item, ans))
       IN /\ draft' = [draft EXCEPT
                         !.next = @ + 1,
                         !.positions = IF product # NoValue THEN Append(@, product) ELSE @,
                         !.missing = IF product = NoValue THEN @ \cup {draft.next} ELSE @]
          /\ trace' = AddIf(t1, product = NoValue /\ ~HasEvent(t1, "unresolved"),
                            Event("unresolved", Phase))
  /\ UNCHANGED <<pc, processor, archive, temp_zip_path, files, document, result,
                 counterparties, first_doc, requests, workers, calc>>

\* after the loop: missing items raise one error that names them all; a
\* transfer document without items gets one position of any service
EndPositions ==
  /\ pc \in {"first_positions", "second_positions"}
  /\ draft.next > Len(document.items)
  /\ \E service \in LookupAnswers :
       LET fallback == processor = "upd" /\ draft.positions = <<>>
           t1 == AddError(trace, Phase, fallback /\ service \in ErrorAnswers)
       IN IF draft.missing # {}
          THEN /\ Raise([type |-> "MoySkladAPIError", missing |-> draft.missing])
               /\ trace' = Append(trace, Event("fail", Phase))
               /\ draft' = draft
          ELSE IF fallback /\ service # "rows"
          THEN /\ Raise(ApiError)
               /\ trace' = Append(t1, Event("fail", Phase))
               /\ draft' = draft
          ELSE /\ pc' = PcOf(Phase, "post")
               /\ result' = result
               /\ trace' = t1
               /\ draft' = [draft EXCEPT
                              !.positions = IF fallback THEN <<"service">> ELSE @]
  /\ UNCHANGED <<processor, archive, temp_zip_path, files, document,
                 counterparties, first_doc, requests, workers, calc>>

\* the POST of the document: /entity/demand, /entity/factureout,
\* /entity/customerorder, /entity/invoiceout
Post ==
  /\ pc \in {"first_post", "second_post"}
  /\ \E ans \in {"ok", "ok_no_meta", "http_err", "net_err"} :
       LET request == [kind |-> DocKind(processor, Phase), organization |-> TRUE,
                       agent |-> TRUE, store |-> draft.store,
                       project |-> draft.project, link |-> draft.link,
                       invoice |-> draft.invoice, positions |-> draft.positions,
                       answer |-> ans]
           t1 == AddError(Append(trace, Event("create", request.kind)),
                          Phase, ans \in ErrorAnswers)
       IN /\ requests' = Append(requests, request)
          /\ IF ans \in {"ok", "ok_no_meta"}
             THEN /\ pc' = NextStep(Phase)
                  /\ result' = result
                  /\ trace' = t1
                  /\ first_doc' = IF Phase = "first"
                                  THEN [kind |-> request.kind, meta |-> ans = "ok"]
                                  ELSE first_doc
             ELSE /\ Raise(ApiError)
                  /\ trace' = Append(t1, Event("fail", Phase))
                  /\ first_doc' = first_doc
  /\ draft' = NoDraft
  /\ UNCHANGED <<processor, archive, temp_zip_path, files, document,
                 counterparties, workers, calc>>

\* _create_success_result
Report ==
  /\ pc = "report"
  /\ result' = [kind |-> "result", success |-> TRUE, error_code |-> NoValue, missing |-> {}]
  /\ pc' = "cleanup"
  /\ UNCHANGED <<processor, archive, temp_zip_path, files, document,
                 counterparties, draft, first_doc, requests, trace, workers, calc>>

\* the finally block: _cleanup_temp_files when the temporary file was saved;
\* it removes the ZIP, then the directory, and an exception of either step
\* is logged and ends the cleanup
Cleanup ==
  /\ pc = "cleanup"
  /\ IF temp_zip_path # 0
     THEN \E outcome \in {"ok", "remove_fails", "rmtree_fails"} :
            files' = CleanupTempFiles(files, processor, temp_zip_path, outcome)
     ELSE files' = files
  /\ pc' = "done"
  /\ UNCHANGED <<processor, archive, temp_zip_path, document, result,
                 counterparties, draft, first_doc, requests, trace, workers, calc>>

Next ==
  \/ ReceiveDocument
  \/ SaveTempFile
  \/ Parse
  \/ Verify
  \/ FindOrganization
  \/ ResolveCounterparty
  \/ StartDemand
  \/ StartFactureout
  \/ DetermineWarehouse
  \/ DetermineProject
  \/ ResolveItem
  \/ EndPositions
  \/ Post
  \/ Report
  \/ Cleanup

Spec == Init /\ [][Next]_vars

\* ------------------------------------------- two runs in executor threads
\* handle_document hands every archive to run_in_executor; the runs share
\* Config.TEMP_DIR.  Each worker goes through the steps of a run that touch
\* the temporary directory: save, extract, read, clean up
SetWorker(w, r) == workers' = [workers EXCEPT ![w] = r]

\* _save_temp_file: NamedTemporaryFile gives every run a file of its own
WorkerSave(w) ==
  /\ workers[w].pc = "idle"
  /\ \E p \in Processors :
       SetWorker(w, [workers[w] EXCEPT !.pc = "extract", !.processor = p, !.zip = w])
  /\ files' = [files EXCEPT !.zips = @ \cup {w}]

\* _extract_archive into the directory named after the document type
WorkerExtract(w) ==
  /\ workers[w].pc = "extract"
  /\ files' = ExtractArchive(files, workers[w].processor, EmptyArchive("full"), w)
  /\ SetWorker(w, [workers[w] EXCEPT !.pc = "read"])

\* UPD: _parse_meta_xml reads <dir>/meta.xml, whoever wrote it, and
\* _parse_upd_content then reads the principal file that this meta.xml
\* names.  Customer invoice: _find_invoice_xml takes the first file that
\* os.walk yields with 'schet' in its name.  A missing file is a parsing
\* error (main stays 0)
WorkerRead(w) ==
  /\ workers[w].pc = "read"
  /\ LET dir == files.dirs[ExtractDirName(workers[w].processor)]
         candidates ==
           IF workers[w].processor = "upd"
           THEN (IF dir.meta # 0 /\ dir.meta \in dir.mains THEN {dir.meta} ELSE {0})
           ELSE (IF dir.mains # {} THEN dir.mains ELSE {0})
     IN \E m \in candidates :
          SetWorker(w, [workers[w] EXCEPT !.pc = "cleanup", !.meta = dir.meta,
                                          !.main = m,
                                          !.foreign = m # 0 /\ m # w])
  /\ files' = files

\* the files of other runs that a cleanup takes away while their owner has
\* extracted them and not yet read them
Unread(w) ==
  {o \in Workers \ {w} :
     /\ workers[o].pc = "read"
     /\ workers[o].processor = workers[w].processor
     /\ o \in files.dirs[ExtractDirName(workers[w].processor)].mains}

\* the finally block of the run
WorkerCleanup(w) ==
  /\ workers[w].pc = "cleanup"
  /\ files' = CleanupTempFiles(files, workers[w].processor, workers[w].zip, "ok")
  /\ SetWorker(w, [workers[w] EXCEPT !.pc = "done", !.removed = Unread(w)])

NextConc ==
  \/ \E w \in Workers : WorkerSave(w) /\ UNCHANGED <<run_vars, calc>>
  \/ \E w \in Workers : WorkerExtract(w) /\ UNCHANGED <<run_vars, calc>>
  \/ \E w \in Workers : WorkerRead(w) /\ UNCHANGED <<run_vars, calc>>
  \/ \E w \in Workers : WorkerCleanup(w) /\ UNCHANGED <<run_vars, calc>>

SpecConc == Init /\ [][NextConc]_vars

\* ------------------------------------------------- functions on their own
\* SpecCalc applies one function of the parsers or of the mapping to every
\* input of a bounded set; calc holds the input and what the function gave
SetCalc(r) == calc' = r /\ UNCHANGED <<run_vars, files, workers>>

\* the hundredths below 120 for which float(price) * 100 lies below the
\* integer, so that int() gives one less (0.29 * 100 = 28.999999999999996)
TruncatedPrices == {29, 57, 58, 113, 114, 115, 116}

\* int(float(item.price) * 100)
KopecksOf(price) == IF price \in TruncatedPrices THEN price - 1 ELSE price

\* invoice_positions: "article:<article>" and "name:<name>" keys to prices
ArticleKey(item) == <<"article", item.article>>
NameKey(item) == <<"name", item.name>>
\* the price choice of _create_positions_from_upd
PositionPrice(item, invoice_positions) ==
  IF item.article # NoValue /\ ArticleKey(item) \in DOMAIN invoice_positions
  THEN (IF invoice_positions[ArticleKey(item)] > 0
        THEN invoice_positions[ArticleKey(item)] ELSE KopecksOf(item.price))
  ELSE IF NameKey(item) \in DOMAIN invoice_positions
  THEN (IF invoice_positions[NameKey(item)] > 0
        THEN invoice_positions[NameKey(item)] ELSE KopecksOf(item.price))
  ELSE KopecksOf(item.price)

\* items with their parsed prices in hundredths of a ruble, and the
\* positions of the customer invoice with their prices in kopecks
ChoosePrice ==
  calc = NoCalc /\
  \E item \in [name : {"tube"}, article : {NoValue, "A1"}, price : {0, 29, 100, 250}],
     invoice_positions \in
       UNION {[K -> {-100, 0, 5000}] :
                K \in SUBSET {<<"article", "A1">>, <<"name", "tube">>}} :
    SetCalc([op |-> "price", item |-> item, invoice_positions |-> invoice_positions,
             price |-> PositionPrice(item, invoice_positions)])

\* a tax id of n digits
Digits(n) == [i \in 1..n |-> "7"]

\* "if x" of Python for an optional string
Truthy(x) == x \notin {NoValue, ""}

\* counterparty_data with a kpp written whatever the length of the tax id
CounterpartyDataKppAlways(buyer, enhanced_kpp) ==
  [companyType |-> IF Len(buyer.inn) = 12 THEN "individual" ELSE "legal",
   kpp |-> IF Truthy(buyer.kpp) THEN buyer.kpp
           ELSE IF Truthy(enhanced_kpp) THEN enhanced_kpp
           ELSE NoValue]

\* counterparty_data of _get_or_create_counterparty; kpp "none": no kpp key
CounterpartyData(buyer, enhanced_kpp) ==
  LET is_individual == Len(buyer.inn) = 12
  IN [companyType |-> IF is_individual THEN "individual" ELSE "legal",
      kpp |-> IF Truthy(buyer.kpp) /\ ~is_individual THEN buyer.kpp
              ELSE IF Truthy(enhanced_kpp) /\ ~is_individual THEN enhanced_kpp
              ELSE NoValue]

\* the buyers tried, and what _lookup_counterparty_by_inn returned for
\* them: {} or the kpp of the answer
BuildCounterparty ==
  calc = NoCalc /\
  \E buyer \in [inn : {Digits(10), Digits(12)}, kpp : {NoValue, "", "780101001"}],
     enhanced_kpp \in {NoValue, "", "770701001"} :
    SetCalc([op |-> "counterparty", buyer |-> buyer, enhanced_kpp |-> enhanced_kpp,
             request |-> CounterpartyData(buyer, enhanced_kpp)])

\* both determinations of one classification of the items
\* items whose names hold the profile keyword, the tube keyword or neither
DetermineBucket ==
  calc = NoCalc /\
  \E items \in SeqsUpTo([name : {"bolt", "tube", "profile"}, article : {NoValue}],
                         MaxItems) :
    \E groups \in GroupAnswersOf(items) :
      LET classes == Classes(items, groups)
      IN SetCalc([op |-> "bucket", items |-> items, groups |-> groups,
                  warehouse |-> TargetWarehouse(classes),
                  project |-> TargetProject(classes)])

\* ------------------------------------------------ the items of a document
\* an amount that the source does not give (the text of the element or the
\* attribute is missing); amounts are in rubles
NoAmount == -1

Given(x) == x # NoAmount

\* Decimal(s) if s else Decimal('0')
OrZero(x) == IF Given(x) THEN x ELSE 0

\* the item of the i-th row of the tabular section
RowItem(i, row) ==
  [line_number |-> i, price |-> OrZero(row.price),
   amount_without_vat |-> OrZero(row.sum),
   vat_amount |-> OrZero(row.vat_sum),
   amount_with_vat |-> IF Given(row.total) THEN row.total
                       ELSE OrZero(row.sum) + OrZero(row.vat_sum)]

\* the item of the i-th product of the catalog
ProductItem(i, product) ==
  LET vat_amount == OrZero(product.vat_sum)
      amount_without_vat == IF vat_amount > 0 THEN OrZero(product.sum) - vat_amount
                            ELSE OrZero(product.sum)
  IN [line_number |-> i, price |-> OrZero(product.price),
      amount_without_vat |-> amount_without_vat,
      vat_amount |-> vat_amount,
      amount_with_vat |-> amount_without_vat + vat_amount]

\* CustomerInvoiceParser._parse_items: the rows of the tabular section; if
\* they gave no item, the products of the catalog
ParseItems(body) ==
  LET items == IF body.table_present
               THEN [i \in 1..Len(body.rows) |-> RowItem(i, body.rows[i])]
               ELSE <<>>
  IN IF items = <<>> /\ body.products # <<>>
     THEN [i \in 1..Len(body.products) |-> ProductItem(i, body.products[i])]
     ELSE items

\* the bodies tried: rows of the tabular section with price, sum, sum of
\* the tax and total; products of the catalog with price per unit, sum and
\* sum of the tax; the total of the document
ParseCommerceItems ==
  calc = NoCalc /\
  \E body \in
       [table_present : BOOLEAN,
        rows : SeqsUpTo([price : {500}, sum : {NoAmount, 1000},
                         vat_sum : {NoAmount, 200}, total : {NoAmount, 1500}],
                        MaxRows),
        products : SeqsUpTo({[price |-> NoAmount, sum |-> NoAmount,
                              vat_sum |-> NoAmount],
                             [price |-> 1000, sum |-> 1200, vat_sum |-> 200]},
                            MaxProducts),
        total_sum : {3000}] :
    /\ ~body.table_present => body.rows = <<>>
    /\ SetCalc([op |-> "commerce_items", body |-> body, items |-> ParseItems(body)])

\* the item of the i-th row of the table of a transfer document
UpdRowItem(i, row) ==
  LET amount_with_vat == OrZero(row.total)
      main_amount == amount_with_vat
  IN [line_number |-> i,
      amount_without_vat |-> main_amount,
      vat_amount |-> OrZero(row.vat),
      amount_with_vat |-> amount_with_vat]

\* UPDParser._parse_invoice_items on a table of well-formed rows
ParseInvoiceItems(rows) == [i \in 1..Len(rows) |-> UpdRowItem(i, rows[i])]

\* the rows (СведТов) tried: СтТовБезНДС, the text of СумНал/СумНал,
\* СтТовУчНал
ParseUpdItems ==
  calc = NoCalc /\
  \E rows \in SeqsUpTo([amount : {NoAmount, 1000}, vat : {NoAmount, 200},
                         total : {NoAmount, 1200}], MaxRows) :
    SetCalc([op |-> "upd_items", rows |-> rows, items |-> ParseInvoiceItems(rows)])

NoDateText == [format |-> "none", day |-> 0]

\* the text of a date of the source: its format and the day it writes;
\* "dmy" is ДД.ММ.ГГГГ, "ymd" is ГГГГ-ММ-ДД, "other" is any other text
DateTexts == [format : {"dmy", "ymd", "other"}, day : {1, 2}]

\* the times at which the archive is parsed, all later than the days written
Nows == {100, 101}

\* the ValueError of datetime.strptime
NoDate == -1

\* datetime.strptime(text, format): the day, or NoDate on any other text
Strptime(text, format) == IF text.format = format THEN text.day ELSE NoDate

\* the chain of the two formats tried for a date of the invoice
InvoiceDateOf(text, now) ==
  IF Strptime(text, "dmy") # NoDate THEN Strptime(text, "dmy")
  ELSE IF Strptime(text, "ymd") # NoDate THEN Strptime(text, "ymd")
  ELSE now

\* the sources tried: СвСчФакт and its attribute ДатаДок, ОснПер, a child
\* element of СвСчФакт with the date, the success of the parsing of the
\* parties, and the attribute Date of Description in the card.
\* invoice_date of _parse_full_upd_content; an exception on the way gives
\* the basic content, whose invoice_date is now
ParseInvoiceDate(src, now) ==
  LET from_attr == IF src.info_present /\ src.date_attr # NoDateText
                   THEN InvoiceDateOf(src.date_attr, now)
                   ELSE now
  IN IF ~src.info_present /\ ~src.osn_per THEN now
     ELSE IF ~src.parties_ok THEN now
     ELSE IF ~src.osn_per /\ src.date_attr = NoDateText /\ src.date_child # NoDateText
          THEN InvoiceDateOf(src.date_child, now)
          ELSE from_attr

\* date of _parse_card_xml
ParseCardDate(src, now) ==
  IF src.card_date = NoDateText THEN now
  ELSE IF src.card_date.format = "ymd" THEN src.card_date.day
  ELSE now

ParseDatesAt(src, now) ==
  [invoice_date |-> ParseInvoiceDate(src, now), card_date |-> ParseCardDate(src, now)]

\* the same archive parsed at two different times
ParseTwice ==
  calc = NoCalc /\
  \E src \in [info_present : BOOLEAN, date_attr : DateTexts \cup {NoDateText},
              osn_per : BOOLEAN, date_child : DateTexts \cup {NoDateText},
              parties_ok : BOOLEAN, card_date : DateTexts \cup {NoDateText}],
     now1 \in Nows, now2 \in Nows :
    /\ now1 < now2
    /\ ~src.info_present => src.date_attr = NoDateText /\ src.date_child = NoDateText
    /\ SetCalc([op |-> "dates", src |-> src,
                first |-> ParseDatesAt(src, now1), second |-> ParseDatesAt(src, now2)])

\* a name is the sequence of its words, written with single spaces between
\* them; <<>> is an absent or empty name
NoName == <<>>

\* "Не указано", the name given to a party that states none
NotSpecified == <<"Ne", "ukazano">>

\* СвЮЛУч, the descriptor of a legal entity: the attributes НаимОрг, ИННЮЛ,
\* КПП and the texts of the child elements of the same names
NoLegal ==
  [present |-> FALSE, name |-> NoName, inn |-> NoValue, kpp |-> NoValue,
   name_elem |-> NoName, inn_elem |-> NoValue, kpp_elem |-> NoValue]

LegalEntities ==
  [present : {TRUE}, name : {NoName, <<"OOO", "Postavshchik">>},
   inn : {NoValue, "7700000001"}, kpp : {NoValue, "770001001"},
   name_elem : {NoName, <<"ZAO">>}, inn_elem : {NoValue, "7700000002"},
   kpp_elem : {NoValue, "770001002"}] \cup {NoLegal}

\* СвИП, the descriptor of a sole proprietor: the attribute ИННФЛ and the
\* attributes of its child ФИО
NoIndividual ==
  [present |-> FALSE, inn_fl |-> NoValue, fio |-> FALSE, surname |-> "",
   first_name |-> "", patronymic |-> ""]

IndividualEntities ==
  { e \in [present : {TRUE}, inn_fl : {NoValue, "781490187318"}, fio : BOOLEAN,
           surname : {"", "Bragar"}, first_name : {"", "Andrei"},
           patronymic : {"", "Vladimirovich"}] :
      ~e.fio => e.surname = "" /\ e.first_name = "" /\ e.patronymic = "" }
  \cup {NoIndividual}

\* the element of a party (СвПрод, ГрузПолуч, СвПокуп) and its descriptors
NoParty == [present |-> FALSE, legal |-> NoLegal, individual |-> NoIndividual]

Parties == [present : {TRUE}, legal : LegalEntities, individual : IndividualEntities]
           \cup {NoParty}

Organization(name, inn, kpp) ==
  [raised |-> FALSE, name |-> name, inn |-> inn, kpp |-> kpp]

NotResolved == [raised |-> TRUE, name |-> NoName, inn |-> NoValue, kpp |-> NoValue]

\* " ".join(part for part in name_parts if part)
JoinParts(parts) == SelectSeq(parts, LAMBDA part : part # "")

\* the legal entity as read: attributes, and child elements where the name
\* or the tax id was not among the attributes
ReadLegal(e) ==
  LET name0 == IF e.name # NoName THEN e.name ELSE NotSpecified
      fallback == name0 = NotSpecified \/ e.inn = NoValue
      name == IF fallback /\ name0 = NotSpecified /\ e.name_elem # NoName
              THEN e.name_elem ELSE name0
      inn == IF fallback /\ e.inn = NoValue THEN e.inn_elem ELSE e.inn
      kpp == IF fallback /\ e.kpp = NoValue THEN e.kpp_elem ELSE e.kpp
  IN Organization(name, inn, kpp)

\* the sole proprietor as read
ReadIndividual(e) ==
  LET joined == IF e.fio
                THEN JoinParts(<<e.surname, e.first_name, e.patronymic>>)
                ELSE NoName
      name == IF joined = NoName THEN NotSpecified ELSE joined
  IN Organization(name, e.inn_fl, NoValue)

\* a sole proprietor is looked at before the legal entity
ResolveIndividualFirst(party) ==
  IF ~party.present THEN NotResolved
  ELSE IF party.individual.present /\ ReadIndividual(party.individual).inn # NoValue
  THEN ReadIndividual(party.individual)
  ELSE IF party.legal.present /\ ReadLegal(party.legal).inn # NoValue
  THEN ReadLegal(party.legal)
  ELSE NotResolved

\* the body shared by _parse_seller_info and _parse_buyer_info once the
\* element of the party is known
ResolveOrganization(party) ==
  IF ~party.present THEN NotResolved
  ELSE IF party.legal.present /\ ReadLegal(party.legal).inn # NoValue
  THEN ReadLegal(party.legal)
  ELSE IF party.individual.present /\ ReadIndividual(party.individual).inn # NoValue
  THEN ReadIndividual(party.individual)
  ELSE NotResolved

\* UPDParser._parse_seller_info: the party is СвПрод
ParseSellerInfo(seller) == ResolveOrganization(seller)

\* the element _parse_buyer_info reads: ГрузПолуч, and СвПокуп without it
BuyerElement(consignee, buyer) == IF consignee.present THEN consignee ELSE buyer

\* UPDParser._parse_buyer_info
ParseBuyerInfo(consignee, buyer) == ResolveOrganization(BuyerElement(consignee, buyer))

ParseSeller ==
  calc = NoCalc /\
  \E seller \in Parties :
    SetCalc([op |-> "party", role |-> "seller", party |-> seller,
             org |-> ParseSellerInfo(seller)])

\* the consignees tried before the buyer: none, a legal entity, one without
\* any tax id
ParseBuyer ==
  calc = NoCalc /\
  \E consignee \in
       { NoParty,
         [present |-> TRUE, individual |-> NoIndividual,
          legal |-> [NoLegal EXCEPT !.present = TRUE,
                                    !.name = <<"OOO", "Poluchatel">>,
                                    !.inn = "7800000002"]],
         [present |-> TRUE, legal |-> NoLegal, individual |-> NoIndividual] },
     buyer \in Parties :
    SetCalc([op |-> "party", role |-> "buyer",
             party |-> BuyerElement(consignee, buyer),
             org |-> ParseBuyerInfo(consignee, buyer)])

\* ------------------------------------------------- the comment of an order
\* a text is the sequence of its pieces; "\n".join(lines)
RECURSIVE JoinLines(_)
JoinLines(lines) ==
  IF lines = <<>> THEN <<>>
  ELSE IF Len(lines) = 1 THEN lines[1]
  ELSE lines[1] \o <<"\n">> \o JoinLines(Tail(lines))

\* the comment with the name of the item on every line
GenerateCommentByName(items) ==
  JoinLines([i \in 1..Len(items) |-> <<items[i].name, " - ", items[i].quantity>>])

\* MoySkladAPI._generate_comment_from_items
GenerateCommentFromItems(items) ==
  JoinLines([i \in 1..Len(items) |->
               <<IF Truthy(items[i].article) THEN items[i].article ELSE items[i].name,
                 " - ", items[i].quantity>>])

\* the items tried: with an article, with an empty one, without one; the
\* quantity as str(Decimal) writes it
GenerateComment ==
  calc = NoCalc /\
  \E items \in SeqsUpTo([name : {"bolt"}, article : {NoValue, "", "PROF-001"},
                         quantity : {"5", "10"}], MaxItems) :
    SetCalc([op |-> "comment", items |-> items,
             comment |-> GenerateCommentFromItems(items)])

\* ------------------------------------------------ the names of the documents
\* every document named by the number alone
DocumentNameUnprefixed(kind, invoice_number) == invoice_number

\* the "name" of demand_data, invoice_data and order_data: the letters О and
\* П are written "O" and "P"
DocumentName(kind, invoice_number) ==
  CASE kind = "demand" -> <<"O">> \o invoice_number
    [] kind = "customerorder" -> <<"P">> \o invoice_number
    [] OTHER -> invoice_number

\* the numbers tried are sequences of characters
NameDocument ==
  calc = NoCalc /\
  \E p \in Processors, phase \in {"first", "second"},
     invoice_number \in {<<"1", "5">>, <<"O", "1">>, <<"P">>} :
    SetCalc([op |-> "name", processor |-> p, phase |-> phase,
             invoice_number |-> invoice_number,
             name |-> DocumentName(DocKind(p, phase), invoice_number)])

\* -------------------------------------------------- the requisite number
IsDigit(c) == c \in {"0", "1", "2", "3", "4", "5", "6", "7", "8", "9"}

\* the digits at the head of a text: one match of \d+
RECURSIVE TakeDigits(_)
TakeDigits(s) ==
  IF s = <<>> \/ ~IsDigit(Head(s)) THEN <<>>
  ELSE <<Head(s)>> \o TakeDigits(Tail(s))

\* re.findall(r'\d+', s)[0], <<>> when there is no match
RECURSIVE FirstNumber(_)
FirstNumber(s) ==
  IF s = <<>> THEN <<>>
  ELSE IF IsDigit(Head(s)) THEN TakeDigits(s)
  ELSE FirstNumber(Tail(s))

\* s.strip()
RECURSIVE Strip(_)
Strip(s) ==
  IF s = <<>> THEN <<>>
  ELSE IF Head(s) = " " THEN Strip(Tail(s))
  ELSE IF s[Len(s)] = " " THEN Strip(SubSeq(s, 1, Len(s) - 1))
  ELSE s

\* the requisite number made of every digit of the value
RequisiteNumberAllDigits(osn_per, attr) ==
  IF ~osn_per \/ attr = <<NoValue>> \/ attr = <<>> THEN <<NoValue>>
  ELSE IF SelectSeq(attr, IsDigit) # <<>> THEN SelectSeq(attr, IsDigit)
  ELSE Strip(attr)

\* requisite_number of _parse_full_upd_content: osn_per tells whether ОснПер
\* was found, attr is its РеквНомерДок; <<NoValue>> is None among the texts
RequisiteNumber(osn_per, attr) ==
  IF ~osn_per \/ attr = <<NoValue>> \/ attr = <<>> THEN <<NoValue>>
  ELSE IF FirstNumber(attr) # <<>> THEN FirstNumber(attr)
  ELSE Strip(attr)

ParseRequisite ==
  calc = NoCalc /\
  \E osn_per \in BOOLEAN,
     attr \in SeqsUpTo({"c", " ", "2", "3"}, MaxChars) \cup {<<NoValue>>} :
    SetCalc([op |-> "requisite", osn_per |-> osn_per, attr |-> attr,
             requisite_number |-> RequisiteNumber(osn_per, attr)])

\* ------------------------------------------------ the type of the document
\* a file of the archive: the directory, base name and extension of its
\* name, and what its first 1024 bytes hold ("unreadable": open raises)
ArchiveFiles ==
  { [dir |-> "", base |-> "meta", ext |-> ".xml", head |-> "plain"],
    [dir |-> "", base |-> "card", ext |-> ".xml", head |-> "plain"],
    [dir |-> "", base |-> "schet", ext |-> ".xml", head |-> "commerceml"],
    [dir |-> "schet", base |-> "meta", ext |-> ".xml", head |-> "plain"],
    [dir |-> "", base |-> "invoice", ext |-> ".xml", head |-> "commerceml"],
    [dir |-> "", base |-> "on_nschf", ext |-> ".xml", head |-> "upd"],
    [dir |-> "", base |-> "doc", ext |-> ".xml", head |-> "upd"],
    [dir |-> "", base |-> "doc", ext |-> ".xml", head |-> "unreadable"],
    [dir |-> "", base |-> "doc", ext |-> ".txt", head |-> "commerceml"] }

\* the first file of the list whose first bytes decide, by the loop over
\* the .xml files
RECURSIVE TypeByContent(_)
TypeByContent(file_list) ==
  IF file_list = <<>> THEN "unknown"
  ELSE IF Head(file_list).ext = ".xml" /\ Head(file_list).head = "commerceml"
  THEN "customer_invoice"
  ELSE IF Head(file_list).ext = ".xml" /\ Head(file_list).head = "upd" THEN "upd"
  ELSE TypeByContent(Tail(file_list))

\* the detector without its outer except: a file that is no archive raises
DetectDocumentTypeUncaught(zip) ==
  IF ~zip.readable THEN "raised" ELSE TypeByContent(zip.file_list)

\* TelegramUPDBot._detect_document_type
DetectDocumentType(zip) ==
  LET file_list == zip.file_list
      AnyFile(P(_)) == \E i \in 1..Len(file_list) : P(file_list[i])
      MetaXml(f) == f.base = "meta" /\ f.ext = ".xml"
      CardXml(f) == f.base = "card" /\ f.ext = ".xml"
      SchetXml(f) == (f.dir = "schet" \/ f.base = "schet") /\ f.ext = ".xml"
      UpdXml(f) == f.ext = ".xml" /\ f.base \in {"upd", "on_nschf"}
  IN IF ~zip.readable THEN "unknown"
     ELSE IF AnyFile(MetaXml) /\ AnyFile(CardXml) /\ AnyFile(SchetXml) THEN "customer_invoice"
     ELSE IF AnyFile(UpdXml) THEN "upd"
     ELSE TypeByContent(file_list)

\* TelegramUPDBot._process_document: the processor that is handed the bytes
ProcessorOf(document_type) ==
  IF document_type = "customer_invoice" THEN "customer_invoice" ELSE "upd"

\* CustomerInvoiceParser._find_invoice_xml: whether a principal document is
\* found among the extracted files
FindInvoiceXml(file_list) ==
  \E i \in 1..Len(file_list) :
    /\ file_list[i].ext = ".xml"
    /\ file_list[i].base \notin {"meta", "card"}
    /\ file_list[i].base = "schet"

DetectDocument ==
  calc = NoCalc /\
  \E readable \in BOOLEAN, file_list \in SeqsUpTo(ArchiveFiles, MaxFiles) :
    /\ ~readable => file_list = <<>>
    /\ LET zip == [readable |-> readable, file_list |-> file_list]
       IN SetCalc([op |-> "detect", zip |-> zip,
                   document_type |-> DetectDocumentType(zip),
                   processor |-> ProcessorOf(DetectDocumentType(zip)),
                   found |-> FindInvoiceXml(file_list)])

\* the product lookup of one item on its own
FindItemProduct ==
  calc = NoCalc /\
  \E item \in [name : {"tube"}, article : {NoValue, "A1"}], ans \in ProductLookups :
    SetCalc([op |-> "product", item |-> item, ans |-> ans,
             lookups |-> LookupsMade(item, ans),
             product |-> ResolveProduct(item, ans)])

\* MoySkladAPI._find_customer_invoice on the rows that the service answers
\* to a filter on the number: the first row, whoever its agent is; the
\* counterparty is not part of any filter
FirstInvoice(requisite_number, counterparty, rows) ==
  IF requisite_number = NoValue \/ rows = <<>> THEN NoValue ELSE rows[1].agent

\* _create_demand: the agent of the demand is the counterparty of the run,
\* its invoice is the one found by the requisite number
LinkInvoice ==
  calc = NoCalc /\
  \E requisite_number \in {NoValue, "15"}, counterparty \in {"buyer", "stranger"},
     rows \in SeqsUpTo([name : {"15", "215"}, agent : {"buyer", "stranger"}], MaxRows) :
    SetCalc([op |-> "link", requisite_number |-> requisite_number, rows |-> rows,
             agent |-> counterparty,
             invoice_agent |-> FirstInvoice(requisite_number, counterparty, rows)])

NextCalc ==
  \/ ChoosePrice
  \/ BuildCounterparty
  \/ DetermineBucket
  \/ ParseCommerceItems
  \/ ParseUpdItems
  \/ ParseTwice
  \/ ParseSeller
  \/ ParseBuyer
  \/ GenerateComment
  \/ NameDocument
  \/ ParseRequisite
  \/ DetectDocument
  \/ FindItemProduct
  \/ LinkInvoice

SpecCalc == Init /\ [][NextCalc]_vars

\* ----------------------------------------------------------- properties
Accepted(request) == request.answer \in {"ok", "ok_no_meta"}

StepOrder == <<"verify", "organization", "counterparty", "first", "second">>

IsStep(e) == e.ev = "step"

StepOfCreate(kind) ==
  CASE kind = "counterparty" -> "counterparty"
    [] kind \in {"demand", "customerorder"} -> "first"
    [] OTHER -> "second"

\* the step that the i-th event of the trace belongs to
StepAt(t, i) ==
  LET n == Len(SelectSeq(SubSeq(t, 1, i), IsStep))
  IN IF n \in 1..Len(StepOrder) THEN StepOrder[n] ELSE NoValue

\* C1: a finished run has produced exactly one ProcessingResult, whatever
\* was raised on the way; before the end of the try block there is none
C1_ExactlyOneResult ==
  /\ pc = "done" => result.kind = "result"
  /\ pc \notin {"cleanup", "done"} => result = NoResult

\* a run that ended in the catch-all clause
C1_Witness == pc = "done" /\ result.error_code = "UNEXPECTED_ERROR"

\* C2: when the run has finished, neither the temporary ZIP file nor the
\* extraction directory exists
C2_TempFilesRemoved == pc = "done" => files = NoFiles

\* C3: with two runs at once, no run reads files that the other run
\* extracted and no cleanup removes files the other run has yet to read
C3_RunsIsolated ==
  \A w \in Workers : ~workers[w].foreign /\ workers[w].removed = {}

\* C4: the steps come in the order verify, organization, counterparty,
\* first document, second document; every create request belongs to its
\* step and is sent once; after a failed step no step and no create request
\* follows and the run ends with a failure result
C4_FixedStepOrder ==
  LET steps == SelectSeq(trace, IsStep)
  IN /\ Len(steps) <= Len(StepOrder)
     /\ \A i \in 1..Len(steps) : steps[i].name = StepOrder[i]
     /\ \A i \in 1..Len(trace) :
          trace[i].ev = "create" =>
            /\ StepAt(trace, i) = StepOfCreate(trace[i].name)
            /\ \A j \in 1..Len(trace) : j # i => trace[j] # trace[i]
     /\ \A i \in 1..Len(trace) :
          trace[i].ev = "fail" =>
            /\ \A j \in (i + 1)..Len(trace) : trace[j].ev \notin {"step", "create"}
            /\ pc \in {"cleanup", "done"}
            /\ result.kind = "result" /\ ~result.success

\* a run whose first document was created and whose second step failed
C4_Witness ==
  /\ pc = "done"
  /\ Len(requests) = 2
  /\ Accepted(requests[1]) /\ ~Accepted(requests[2])
  /\ trace[Len(trace)] = Event("fail", "second")

\* C5: once an item of the document resolved to no product, the run ends
\* with a failure that names the unresolved items and no document of the
\* run is created
C5_UnresolvedItemAbortsAll ==
  HasEvent(trace, "unresolved") =>
    /\ \A i \in 1..Len(requests) : ~Accepted(requests[i])
    /\ pc = "done" => ~result.success /\ result.missing # {}

\* C6: after an error answer of the external service (non-2xx or network
\* failure) the run reports no success and sends no create request for a
\* document
C6_ServiceErrorIsFatal ==
  \A i \in 1..Len(trace) :
    trace[i].ev = "error" =>
      /\ pc = "done" => ~result.success
      /\ pc # "report"
      /\ \A j \in (i + 1)..Len(trace) :
           ~(/\ trace[j].ev = "create"
             /\ trace[j].name \in {"demand", "factureout", "customerorder",
                                   "invoiceout"})

NoTaxId(a) ==
  a.structure = "full" /\ (a.seller_inn = NoValue \/ a.buyer_inn = NoValue)

\* C7: an archive whose seller or buyer has no tax id yields no document,
\* no step of the upload is made for it and its run ends with a failure
C7_NoTaxIdIsFatal ==
  NoTaxId(archive) =>
    /\ document = NoDocument
    /\ ~HasEvent(trace, "step")
    /\ pc = "done" => result.kind = "result" /\ ~result.success

\* C8: a counterparty is created only for a tax id that no counterparty
\* of the external service has
C8_CreateOnlyIfAbsent ==
  [][\A inn \in CounterpartyInns :
       counterparties'[inn] > counterparties[inn] => counterparties[inn] = 0]_vars

\* C9: a create request for a second document is sent only after the first
\* document was created and carries the link to it
C9_SecondLinkedToFirst ==
  \A i \in 1..Len(requests) :
    requests[i].kind \in {"factureout", "invoiceout"} =>
      /\ i = 2 /\ Accepted(requests[1])
      /\ requests[i].link = requests[1].kind

\* C10: every create request for a document references an organization,
\* a counterparty, a store and a project, and each position a product
C10_RequestsFullyReferenced ==
  \A i \in 1..Len(requests) :
    /\ requests[i].organization /\ requests[i].agent
    /\ requests[i].store # NoValue
    /\ requests[i].project # NoValue
    /\ \A k \in 1..Len(requests[i].positions) :
         requests[i].positions[k] \in {"product_by_article", "product_by_name"}

\* the stored price under a key, 0 when the key is absent
StoredPrice(invoice_positions, key) ==
  IF key \in DOMAIN invoice_positions THEN invoice_positions[key] ELSE 0

\* C11: the price of a position is the positive price stored in the invoice
\* under the item's article, else the positive price stored under its name,
\* else (no match or only non-positive stored prices) the parsed price in
\* kopecks
C11_StoredPositivePricePreferred ==
  calc.op = "price" =>
    LET by_article == IF calc.item.article # NoValue
                      THEN StoredPrice(calc.invoice_positions, ArticleKey(calc.item))
                      ELSE 0
        by_name == StoredPrice(calc.invoice_positions, NameKey(calc.item))
    IN calc.price = IF by_article > 0 THEN by_article
                    ELSE IF by_name > 0 THEN by_name
                    ELSE KopecksOf(calc.item.price)

\* C12 as stated: 12 digits give an individual without kpp, 10 digits a
\* legal entity with a kpp exactly if the parsed kpp is present
C12_KppIffParsed ==
  calc.op = "counterparty" =>
    /\ Len(calc.buyer.inn) = 12 =>
         calc.request.companyType = "individual" /\ calc.request.kpp = NoValue
    /\ Len(calc.buyer.inn) = 10 =>
         /\ calc.request.companyType = "legal"
         /\ calc.request.kpp # NoValue <=> Truthy(calc.buyer.kpp)

\* C12: 12 digits give an individual without kpp; 10 digits give a legal
\* entity whose kpp is the parsed kpp if present, else the kpp of the
\* lookup by tax id if that gave one, else absent
C12_KppParsedOrEnriched ==
  calc.op = "counterparty" =>
    /\ Len(calc.buyer.inn) = 12 =>
         calc.request.companyType = "individual" /\ calc.request.kpp = NoValue
    /\ Len(calc.buyer.inn) = 10 =>
         /\ calc.request.companyType = "legal"
         /\ calc.request.kpp =
              IF Truthy(calc.buyer.kpp) THEN calc.buyer.kpp
              ELSE IF Truthy(calc.enhanced_kpp) THEN calc.enhanced_kpp
              ELSE NoValue

\* a legal entity without parsed kpp whose kpp came from the lookup
C12_Witness ==
  /\ calc.op = "counterparty"
  /\ Len(calc.buyer.inn) = 10
  /\ ~Truthy(calc.buyer.kpp)
  /\ calc.request.kpp = "770701001"

\* the items of calc that count for a bucket: by the group of the product
\* if that names the bucket, else by the name of the item
InBucket(bucket) ==
  {i \in 1..Len(calc.items) :
     \/ calc.groups[i] = bucket
     \/ calc.groups[i] = "none" /\ calc.items[i].name = bucket}

OnlyValidated ==
  /\ pc = "done"
  /\ temp_zip_path = 0 /\ files = NoFiles
  /\ document = NoDocument
  /\ trace = <<>> /\ requests = <<>>

\* is the i-th character from the end of name one of the two given ones
CharFromEnd(name, i, lower, upper) ==
  Len(name) >= i /\ name[Len(name) - i + 1] \in {lower, upper}

\* C14: an upload larger than MAX_FILE_SIZE is rejected with FILE_TOO_LARGE,
\* otherwise one whose name does not end in .zip (in any case of letters)
\* with INVALID_FILE_TYPE, both before a temporary file, a parse or a
\* request; an upload of exactly MAX_FILE_SIZE named *.zip is accepted
C14_RejectedBeforeAnyWork ==
  pc # "idle" =>
    LET zip == /\ CharFromEnd(archive.filename, 4, ".", ".")
               /\ CharFromEnd(archive.filename, 3, "z", "Z")
               /\ CharFromEnd(archive.filename, 2, "i", "I")
               /\ CharFromEnd(archive.filename, 1, "p", "P")
    IN IF archive.size > MAX_FILE_SIZE
       THEN result = Failure("FILE_TOO_LARGE", {}) /\ OnlyValidated
       ELSE IF ~zip
       THEN result = Failure("INVALID_FILE_TYPE", {}) /\ OnlyValidated
       ELSE result.error_code \notin {"FILE_TOO_LARGE", "INVALID_FILE_TYPE"}

\* an oversized upload with a wrong name: the size is reported
C14_Witness ==
  /\ pc = "done"
  /\ archive.size = MAX_FILE_SIZE + 1
  /\ archive.filename = <<"a", ".", "x", "m", "l">>
  /\ result.error_code = "FILE_TOO_LARGE"

\* C15: rows of the tabular section, if any, are the only source of the
\* items; without a tabular section and without prices or sums in the
\* products, the total of the document is split evenly over the products
\* of the catalog, with 20% tax: 3 products and a total of 3000 give 3
\* items of price 1000, vat_amount 200 and amount_with_vat 1200
C15_TotalSplitOverProducts ==
  calc.op = "commerce_items" =>
    LET body == calc.body
        n == Len(body.products)
        priced == \E i \in 1..n : Given(body.products[i].price)
                                    \/ Given(body.products[i].sum)
    IN /\ body.rows # <<>> =>
            calc.items = [i \in 1..Len(body.rows) |-> RowItem(i, body.rows[i])]
       /\ ~body.table_present /\ n > 0 /\ ~priced =>
            /\ Len(calc.items) = n
            /\ \A i \in 1..n :
                 /\ calc.items[i].price = body.total_sum \div n
                 /\ calc.items[i].vat_amount = (body.total_sum \div n) \div 5
                 /\ calc.items[i].amount_with_vat =
                      (body.total_sum \div n) + (body.total_sum \div n) \div 5

\* C17: a commerce document with a tabular section, of any number of rows,
\* gives exactly one item per row of the section, in the order of the rows,
\* numbered 1, 2, ..., n
C17_OneItemPerRow ==
  calc.op = "commerce_items" /\ calc.body.table_present =>
    /\ Len(calc.items) = Len(calc.body.rows)
    /\ \A i \in 1..Len(calc.items) :
         calc.items[i] = RowItem(i, calc.body.rows[i])

\* C16: in either schema, an item whose source row gives no total with the
\* tax has amount_with_vat = amount_without_vat + vat_amount
C16_TotalComputedWhenMissing ==
  /\ calc.op = "upd_items" =>
       \A i \in 1..Len(calc.items) :
         ~Given(calc.rows[i].total) =>
           calc.items[i].amount_with_vat =
             calc.items[i].amount_without_vat + calc.items[i].vat_amount
  /\ calc.op = "commerce_items" =>
       \A i \in 1..Len(calc.items) :
         (calc.body.rows # <<>> => ~Given(calc.body.rows[i].total)) =>
           calc.items[i].amount_with_vat =
             calc.items[i].amount_without_vat + calc.items[i].vat_amount

\* C18: two parsings of the same archive at different times differ only in
\* a date that fell back to now(), and a date falls back to now() only if
\* it is absent from the source: a date that the source carries is the same
\* in both parsings
C18_NowOnlyWhenDateAbsent ==
  calc.op = "dates" =>
    /\ (calc.src.date_attr # NoDateText \/ calc.src.date_child # NoDateText) =>
         calc.first.invoice_date = calc.second.invoice_date
    /\ calc.src.card_date # NoDateText =>
         calc.first.card_date = calc.second.card_date

\* C19: parsing a transfer archive raises the parsing error when the manifest
\* or the descriptor is missing, incomplete or malformed; once both are
\* parsed, no problem of the body makes the parsing fail: it gives a parsed
\* document or the empty-sentinel document
C19_BodyNeverFails ==
  [][pc = "parse" /\ processor = "upd" =>
       /\ archive.structure \in {"no_manifest", "manifest_incomplete",
                                 "no_descriptor", "descriptor_malformed"} =>
            /\ document' = NoDocument
            /\ result' = Failure("PARSING_ERROR", {})
       /\ archive.structure \in {"no_body", "body_undecodable", "header_only",
                                 "body_malformed", "full"} =>
            /\ document' # NoDocument
            /\ result' = NoResult]_vars

\* the value of a field of a descriptor: the attribute, or the child element
AttrOrElem(attr, elem, none) == IF attr # none THEN attr ELSE elem

LegalInn(party) ==
  IF party.present /\ party.legal.present
  THEN AttrOrElem(party.legal.inn, party.legal.inn_elem, NoValue)
  ELSE NoValue

IndividualInn(party) ==
  IF party.present /\ party.individual.present THEN party.individual.inn_fl
  ELSE NoValue

NameParts(party) ==
  JoinParts(<<party.individual.surname, party.individual.first_name,
              party.individual.patronymic>>)

C21_CommentLinePerItem ==
  calc.op = "comment" =>
    LET n == Len(calc.items)
        comment == calc.comment
    IN /\ Len(comment) = IF n = 0 THEN 0 ELSE 4 * n - 1
       /\ \A i \in 1..n :
            /\ comment[4 * i - 3] = IF calc.items[i].article \in {NoValue, ""}
                                    THEN calc.items[i].name
                                    ELSE calc.items[i].article
            /\ comment[4 * i - 2] = " - "
            /\ comment[4 * i - 1] = calc.items[i].quantity
            /\ i < n => comment[4 * i] = "\n"

\* an item with an article before an item without one
C21_Witness ==
  /\ calc.op = "comment"
  /\ calc.comment = <<"PROF-001", " - ", "10", "\n", "bolt", " - ", "5">>

\* C22: the goods-issue of a transfer document of number N is named "О"
\* and N, the order of a commerce document "П" and N, the document created
\* second on either path is named N, and the two letters differ
C22_DocumentNames ==
  calc.op = "name" =>
    /\ calc.name =
         IF calc.phase = "second" THEN calc.invoice_number
         ELSE IF calc.processor = "upd" THEN <<"O">> \o calc.invoice_number
         ELSE <<"P">> \o calc.invoice_number
    /\ calc.phase = "first" =>
         /\ Len(calc.name) = Len(calc.invoice_number) + 1
         /\ calc.name[1] = (IF calc.processor = "upd" THEN "O" ELSE "P")
         /\ Tail(calc.name) = calc.invoice_number

\* the goods-issue of the number О1
C22_Witness ==
  /\ calc.op = "name"
  /\ calc.processor = "upd"
  /\ calc.name = <<"O", "O", "1">>

\* C23: of a raw value with a digit the requisite number is the first
\* maximal run of digits; of a non-empty value without digits it is the
\* value without the blanks around it; without the element or without the
\* attribute it is none
C23_FirstRunOfDigits ==
  calc.op = "requisite" =>
    LET raw == calc.attr
        number == calc.requisite_number
    IN IF ~calc.osn_per \/ raw = <<NoValue>> THEN number = <<NoValue>>
       ELSE IF \E i \in 1..Len(raw) : IsDigit(raw[i])
       THEN \E a \in 1..Len(raw), b \in 1..Len(raw) :
              /\ a <= b
              /\ number = SubSeq(raw, a, b)
              /\ \A i \in 1..b : IsDigit(raw[i]) <=> i >= a
              /\ b < Len(raw) => ~IsDigit(raw[b + 1])
       ELSE raw # <<>> =>
              \E a \in 1..(Len(raw) + 1), b \in 0..Len(raw) :
                /\ number = SubSeq(raw, a, b)
                /\ \A i \in 1..Len(raw) : (i < a \/ i > b) => raw[i] = " "
                /\ a <= b => raw[a] # " " /\ raw[b] # " "

\* a value with two runs of digits: the first one is the number
C23_Witness ==
  /\ calc.op = "requisite"
  /\ calc.osn_per
  /\ calc.attr = <<"c", "2", " ", "3">>
  /\ calc.requisite_number = <<"2">>

\* C24: the detector gives customer_invoice, upd or unknown for every input,
\* also for bytes that are no archive, and never raises; customer_invoice
\* goes to the commerce processor, upd and unknown go to the processor of
\* transfer documents
C24_DetectorTotal ==
  calc.op = "detect" =>
    /\ calc.document_type \in {"customer_invoice", "upd", "unknown"}
    /\ ~calc.zip.readable => calc.document_type = "unknown"
    /\ calc.processor \in Processors
    /\ calc.processor = "customer_invoice" <=> calc.document_type = "customer_invoice"
    /\ calc.document_type \in {"upd", "unknown"} => calc.processor = "upd"

\* bytes that are no archive go to the processor of transfer documents
C24_Witness ==
  /\ calc.op = "detect"
  /\ ~calc.zip.readable
  /\ calc.document_type = "unknown"
  /\ calc.processor = "upd"

\* C30: in every archive that the detector takes for a customer invoice,
\* by the names of its files or by the namespace in the first bytes of one,
\* the commerce parser finds the principal document
C30_DetectorAndParserAgree ==
  calc.op = "detect" /\ calc.document_type = "customer_invoice" => calc.found

\* C25: the price sent for an item whose parsed price has at most two
\* decimal places (and for which the invoice stores no price) is the parsed
\* price times 100 exactly
C25_PriceInKopecksExact ==
  calc.op = "price" /\ DOMAIN calc.invoice_positions = {} =>
    calc.price = calc.item.price

\* C26: an item with an article is looked up by article first; the lookup
\* by name is made exactly if the item has no article or the lookup by
\* article gave nothing, and a product found by article is the product of
\* the position
C26_ArticleBeforeName ==
  calc.op = "product" =>
    LET has_article == calc.item.article # NoValue
        by_article == has_article /\ calc.ans.article = "rows"
    IN /\ has_article => calc.lookups # <<>> /\ calc.lookups[1] = "article"
       /\ ~has_article => calc.lookups = <<"name">>
       /\ (\E i \in 1..Len(calc.lookups) : calc.lookups[i] = "name") <=> ~by_article
       /\ by_article => calc.product = "product_by_article"
       /\ ~by_article =>
            calc.product = IF calc.ans.name = "rows" THEN "product_by_name" ELSE NoValue

\* both lookups would find a product and the one found by article is kept
C26_Witness ==
  /\ calc.op = "product"
  /\ calc.item.article = "A1"
  /\ calc.ans = [article |-> "rows", name |-> "rows"]
  /\ calc.lookups = <<"article">>
  /\ calc.product = "product_by_article"

\* C29: the invoice that a demand is linked to belongs to the counterparty
\* that is the agent of the demand
C29_InvoiceOfSameCounterparty ==
  calc.op = "link" /\ calc.invoice_agent # NoValue => calc.invoice_agent = calc.agent

\* C27: when the demand and the factureout of a run are both created, the
\* positions sent in the factureout are the positions sent in the demand
C27_SamePositionsInBoth ==
  \A i, j \in 1..Len(requests) :
    /\ requests[i].kind = "demand" /\ requests[i].answer = "ok"
    /\ requests[j].kind = "factureout" /\ requests[j].answer = "ok"
    => requests[j].positions = requests[i].positions

\* C28: the store and the project of an order or invoice come from one
\* bucket (never the warehouse of the tubes with the project of the
\* profiles, nor the reverse), and the order and the invoice of one run
\* carry the same store and the same project
C28_SelectionsFromOneBucket ==
  /\ \A i \in 1..Len(requests) :
       requests[i].kind \in {"customerorder", "invoiceout"} =>
         /\ ~(requests[i].store = "Sestroretsk, PP" /\ requests[i].project = "profili")
         /\ ~(requests[i].store = "Gatchina" /\ requests[i].project = "Truby")
  /\ \A i, j \in 1..Len(requests) :
       requests[i].kind = "customerorder" /\ requests[j].kind = "invoiceout" =>
         /\ requests[j].store = requests[i].store
         /\ requests[j].project = requests[i].project
====
